---- MODULE Spec2Model ----
(***************************************************************************)
(* Proof-of-existence pallet (pallets/poe/src/lib.rs): a registry mapping  *)
(* a bounded claim to (owner, block number), with the three dispatchables  *)
(* create_claim, revoke_claim and transfer_claim.                          *)
(***************************************************************************)
EXTENDS Integers, Sequences, FiniteSets, TLC

VARIABLES Proofs, events, block_number, call, result

vars == <<Proofs, events, block_number, call, result>>

\* ---- bounds of the model ----
NumAccounts == 2
MaxBlock == 1
MaxEvents == 3

\* Config::MaxClaimLength, the configured capacity of the BoundedVec key.
MaxClaimLength == 1

AccountId == 1..NumAccounts

\* Byte values used in the submitted claims.
Bytes == {1}

\* Vec<u8> arguments submitted to the dispatchables: every length up to one
\* byte past the capacity.
Claims == UNION {[1..n -> Bytes] : n \in 0..(MaxClaimLength + 1)}

\* OriginFor<T>: a signed origin carries the account, the others do not.
Signed(who) == [kind |-> "Signed", who |-> who]
RawNone == [kind |-> "None", who |-> 0]
Origin == {Signed(a) : a \in AccountId} \cup {RawNone}

\* enum Error<T>, with frame_system's BadOrigin for a failed ensure_signed.
Error == {"ProofAlreadyExist", "ClaimTooLong", "ClaimNotExist", "NotClaimOwner"}

\* enum Event<T>
ClaimCreated(who, claim) == <<"ClaimCreated", who, claim>>
\* ClaimRevoked built as the ClaimCreated variant.
ClaimRevoked_AsCreated(who, claim) == <<"ClaimCreated", who, claim>>

ClaimRevoked(who, claim) == <<"ClaimRevoked", who, claim>>
ClaimTransfered(owner, who, claim) == <<"ClaimTransfered", owner, who, claim>>

\* ensure_signed that lets every origin through.
ensure_signed_AnyOrigin(origin) == [ok |-> TRUE, val |-> origin.who]

\* ensure_signed(origin): Ok(account) for a signed origin, Err(BadOrigin) otherwise.
ensure_signed(origin) ==
    IF origin.kind = "Signed" THEN [ok |-> TRUE, val |-> origin.who]
    ELSE [ok |-> FALSE, val |-> 0]

\* try_from with a capacity one byte too large.
try_from_OffByOne(claim) ==
    IF Len(claim) <= MaxClaimLength + 1 THEN [ok |-> TRUE, val |-> claim]
    ELSE [ok |-> FALSE, val |-> <<>>]

\* try_from with the capacity comparison made strict.
try_from_Strict(claim) ==
    IF Len(claim) < MaxClaimLength THEN [ok |-> TRUE, val |-> claim]
    ELSE [ok |-> FALSE, val |-> <<>>]

\* BoundedVec::<u8, MaxClaimLength>::try_from(claim): Ok when the vector fits.
try_from(claim) ==
    IF Len(claim) <= MaxClaimLength THEN [ok |-> TRUE, val |-> claim]
    ELSE [ok |-> FALSE, val |-> <<>>]

RECURSIVE SumBytes(_)
SumBytes(key) == IF key = <<>> THEN 0 ELSE Head(key) + SumBytes(Tail(key))

\* 128-bit digest of the key, abstracted to a two-valued checksum, so that
\* distinct keys may collide on the digest.
Blake2_128(key) == SumBytes(key) % 2

\* Blake2_128Concat: the storage key is the digest followed by the key itself.
Blake2_128Concat(key) == <<Blake2_128(key)>> \o key

\* contains_key looking the raw key up, without the hasher.
contains_key_Unhashed(map, key) == key \in DOMAIN map

\* get that answers an absent key with the default value (a ValueQuery map).
get_ValueQuery(map, key) ==
    IF Blake2_128Concat(key) \in DOMAIN map
    THEN [some |-> TRUE, val |-> map[Blake2_128Concat(key)]]
    ELSE [some |-> TRUE, val |-> <<0, 0>>]

\* StorageMap operations of Proofs.
contains_key(map, key) == Blake2_128Concat(key) \in DOMAIN map

get(map, key) ==
    IF Blake2_128Concat(key) \in DOMAIN map
    THEN [some |-> TRUE, val |-> map[Blake2_128Concat(key)]]
    ELSE [some |-> FALSE, val |-> <<0, 0>>]

\* insert that keeps the block number of a key already present.
insert_KeepTime(map, key, value) ==
    [k \in DOMAIN map \cup {Blake2_128Concat(key)} |->
        IF k # Blake2_128Concat(key) THEN map[k]
        ELSE IF k \in DOMAIN map THEN <<value[1], map[k][2]>> ELSE value]

\* insert that keeps the value of a key already present.
insert_IfAbsent(map, key, value) ==
    [k \in DOMAIN map \cup {Blake2_128Concat(key)} |->
        IF k \in DOMAIN map THEN map[k] ELSE value]

insert(map, key, value) ==
    [k \in DOMAIN map \cup {Blake2_128Concat(key)} |->
        IF k = Blake2_128Concat(key) THEN value ELSE map[k]]

\* remove looking the raw key up, without the hasher.
remove_Unhashed(map, key) ==
    [k \in DOMAIN map \ {key} |-> map[k]]

\* remove that clears every key the given key is a prefix of.
remove_ClearPrefix(map, key) ==
    [k \in {x \in DOMAIN map :
                ~(Len(Tail(x)) >= Len(key) /\ SubSeq(Tail(x), 1, Len(key)) = key)} |->
        map[k]]

\* remove that resets the value to its default and keeps the key.
remove_Tombstone(map, key) ==
    [k \in DOMAIN map |-> IF k = Blake2_128Concat(key) THEN <<0, 0>> ELSE map[k]]

remove(map, key) ==
    [k \in DOMAIN map \ {Blake2_128Concat(key)} |-> map[k]]

\* deposit_event that records nothing.
deposit_event_Dropped(event) == events

\* deposit_event: append the event to the runtime's event log, which records
\* the block the event was deposited in.
deposit_event(event) == Append(events, [block |-> block_number, event |-> event])

Init ==
    /\ Proofs = [k \in {} |-> <<0, 0>>]
    /\ events = <<>>
    /\ block_number = 0
    /\ call = [op |-> "none", origin |-> RawNone, claim |-> <<>>, dest |-> 0]
    /\ result = "none"

create_claim(origin, claim) ==
    /\ Len(events) < MaxEvents
    /\ call' = [op |-> "create_claim", origin |-> origin, claim |-> claim, dest |-> 0]
    /\ UNCHANGED block_number
    /\ LET sender == ensure_signed(origin)
           bounded_claim == try_from(claim)
       IN  IF ~sender.ok
           THEN result' = "BadOrigin" /\ UNCHANGED <<Proofs, events>>
           ELSE IF ~bounded_claim.ok
           THEN result' = "ClaimTooLong" /\ UNCHANGED <<Proofs, events>>
           ELSE IF contains_key(Proofs, bounded_claim.val)
           THEN result' = "ProofAlreadyExist" /\ UNCHANGED <<Proofs, events>>
           ELSE /\ Proofs' = insert(Proofs, bounded_claim.val, <<sender.val, block_number>>)
                /\ events' = deposit_event(ClaimCreated(sender.val, claim))
                /\ result' = "Ok"

\* revoke_claim with the removal placed before the ownership check.
revoke_claim_RemoveFirst(origin, claim) ==
    /\ Len(events) < MaxEvents
    /\ call' = [op |-> "revoke_claim", origin |-> origin, claim |-> claim, dest |-> 0]
    /\ UNCHANGED block_number
    /\ LET sender == ensure_signed(origin)
           bounded_claim == try_from(claim)
           proof == get(Proofs, bounded_claim.val)
           owner == proof.val[1]
       IN  IF ~sender.ok
           THEN result' = "BadOrigin" /\ UNCHANGED <<Proofs, events>>
           ELSE IF ~bounded_claim.ok
           THEN result' = "ClaimTooLong" /\ UNCHANGED <<Proofs, events>>
           ELSE IF ~proof.some
           THEN result' = "ClaimNotExist" /\ UNCHANGED <<Proofs, events>>
           ELSE IF ~(owner = sender.val)
           THEN /\ Proofs' = remove(Proofs, bounded_claim.val)
                /\ result' = "NotClaimOwner"
                /\ UNCHANGED events
           ELSE /\ Proofs' = remove(Proofs, bounded_claim.val)
                /\ events' = deposit_event(ClaimRevoked(sender.val, claim))
                /\ result' = "Ok"

\* revoke_claim with the registry lookup placed before the length check.
revoke_claim_LookupFirst(origin, claim) ==
    /\ Len(events) < MaxEvents
    /\ call' = [op |-> "revoke_claim", origin |-> origin, claim |-> claim, dest |-> 0]
    /\ UNCHANGED block_number
    /\ LET sender == ensure_signed(origin)
           bounded_claim == try_from(claim)
           proof == get(Proofs, claim)
           owner == proof.val[1]
       IN  IF ~sender.ok
           THEN result' = "BadOrigin" /\ UNCHANGED <<Proofs, events>>
           ELSE IF ~proof.some
           THEN result' = "ClaimNotExist" /\ UNCHANGED <<Proofs, events>>
           ELSE IF ~bounded_claim.ok
           THEN result' = "ClaimTooLong" /\ UNCHANGED <<Proofs, events>>
           ELSE IF ~(owner = sender.val)
           THEN result' = "NotClaimOwner" /\ UNCHANGED <<Proofs, events>>
           ELSE /\ Proofs' = remove(Proofs, bounded_claim.val)
                /\ events' = deposit_event(ClaimRevoked(sender.val, claim))
                /\ result' = "Ok"

revoke_claim(origin, claim) ==
    /\ Len(events) < MaxEvents
    /\ call' = [op |-> "revoke_claim", origin |-> origin, claim |-> claim, dest |-> 0]
    /\ UNCHANGED block_number
    /\ LET sender == ensure_signed(origin)
           bounded_claim == try_from(claim)
           proof == get(Proofs, bounded_claim.val)
           owner == proof.val[1]
       IN  IF ~sender.ok
           THEN result' = "BadOrigin" /\ UNCHANGED <<Proofs, events>>
           ELSE IF ~bounded_claim.ok
           THEN result' = "ClaimTooLong" /\ UNCHANGED <<Proofs, events>>
           ELSE IF ~proof.some
           THEN result' = "ClaimNotExist" /\ UNCHANGED <<Proofs, events>>
           ELSE IF ~(owner = sender.val)
           THEN result' = "NotClaimOwner" /\ UNCHANGED <<Proofs, events>>
           ELSE /\ Proofs' = remove(Proofs, bounded_claim.val)
                /\ events' = deposit_event(ClaimRevoked(sender.val, claim))
                /\ result' = "Ok"

\* transfer_claim without the ownership check.
transfer_claim_NoOwnerCheck(origin, claim, dest) ==
    /\ Len(events) < MaxEvents
    /\ call' = [op |-> "transfer_claim", origin |-> origin, claim |-> claim, dest |-> dest]
    /\ UNCHANGED block_number
    /\ LET sender == ensure_signed(origin)
           bounded_claim == try_from(claim)
           proof == get(Proofs, bounded_claim.val)
           owner == proof.val[1]
       IN  IF ~sender.ok
           THEN result' = "BadOrigin" /\ UNCHANGED <<Proofs, events>>
           ELSE IF ~bounded_claim.ok
           THEN result' = "ClaimTooLong" /\ UNCHANGED <<Proofs, events>>
           ELSE IF ~proof.some
           THEN result' = "ClaimNotExist" /\ UNCHANGED <<Proofs, events>>
           ELSE /\ Proofs' = insert(Proofs, bounded_claim.val, <<dest, block_number>>)
                /\ events' = deposit_event(ClaimTransfered(owner, sender.val, claim))
                /\ result' = "Ok"

\* transfer_claim storing the sender, not the destination, as the new owner.
transfer_claim_KeepSender(origin, claim, dest) ==
    /\ Len(events) < MaxEvents
    /\ call' = [op |-> "transfer_claim", origin |-> origin, claim |-> claim, dest |-> dest]
    /\ UNCHANGED block_number
    /\ LET sender == ensure_signed(origin)
           bounded_claim == try_from(claim)
           proof == get(Proofs, bounded_claim.val)
           owner == proof.val[1]
       IN  IF ~sender.ok
           THEN result' = "BadOrigin" /\ UNCHANGED <<Proofs, events>>
           ELSE IF ~bounded_claim.ok
           THEN result' = "ClaimTooLong" /\ UNCHANGED <<Proofs, events>>
           ELSE IF ~proof.some
           THEN result' = "ClaimNotExist" /\ UNCHANGED <<Proofs, events>>
           ELSE IF ~(owner = sender.val)
           THEN result' = "NotClaimOwner" /\ UNCHANGED <<Proofs, events>>
           ELSE /\ Proofs' = insert(Proofs, bounded_claim.val, <<sender.val, block_number>>)
                /\ events' = deposit_event(ClaimTransfered(owner, sender.val, claim))
                /\ result' = "Ok"

\* transfer_claim depositing the destination in the event's second field.
transfer_claim_EventDest(origin, claim, dest) ==
    /\ Len(events) < MaxEvents
    /\ call' = [op |-> "transfer_claim", origin |-> origin, claim |-> claim, dest |-> dest]
    /\ UNCHANGED block_number
    /\ LET sender == ensure_signed(origin)
           bounded_claim == try_from(claim)
           proof == get(Proofs, bounded_claim.val)
           owner == proof.val[1]
       IN  IF ~sender.ok
           THEN result' = "BadOrigin" /\ UNCHANGED <<Proofs, events>>
           ELSE IF ~bounded_claim.ok
           THEN result' = "ClaimTooLong" /\ UNCHANGED <<Proofs, events>>
           ELSE IF ~proof.some
           THEN result' = "ClaimNotExist" /\ UNCHANGED <<Proofs, events>>
           ELSE IF ~(owner = sender.val)
           THEN result' = "NotClaimOwner" /\ UNCHANGED <<Proofs, events>>
           ELSE /\ Proofs' = insert(Proofs, bounded_claim.val, <<dest, block_number>>)
                /\ events' = deposit_event(ClaimTransfered(owner, dest, claim))
                /\ result' = "Ok"

\* transfer_claim returning early, without any effect, when the destination
\* is the sender.
transfer_claim_SelfNoop(origin, claim, dest) ==
    /\ Len(events) < MaxEvents
    /\ call' = [op |-> "transfer_claim", origin |-> origin, claim |-> claim, dest |-> dest]
    /\ UNCHANGED block_number
    /\ LET sender == ensure_signed(origin)
           bounded_claim == try_from(claim)
           proof == get(Proofs, bounded_claim.val)
           owner == proof.val[1]
       IN  IF ~sender.ok
           THEN result' = "BadOrigin" /\ UNCHANGED <<Proofs, events>>
           ELSE IF ~bounded_claim.ok
           THEN result' = "ClaimTooLong" /\ UNCHANGED <<Proofs, events>>
           ELSE IF ~proof.some
           THEN result' = "ClaimNotExist" /\ UNCHANGED <<Proofs, events>>
           ELSE IF ~(owner = sender.val)
           THEN result' = "NotClaimOwner" /\ UNCHANGED <<Proofs, events>>
           ELSE IF dest = sender.val
           THEN result' = "Ok" /\ UNCHANGED <<Proofs, events>>
           ELSE /\ Proofs' = insert(Proofs, bounded_claim.val, <<dest, block_number>>)
                /\ events' = deposit_event(ClaimTransfered(owner, sender.val, claim))
                /\ result' = "Ok"

transfer_claim(origin, claim, dest) ==
    /\ Len(events) < MaxEvents
    /\ call' = [op |-> "transfer_claim", origin |-> origin, claim |-> claim, dest |-> dest]
    /\ UNCHANGED block_number
    /\ LET sender == ensure_signed(origin)
           bounded_claim == try_from(claim)
           proof == get(Proofs, bounded_claim.val)
           owner == proof.val[1]
       IN  IF ~sender.ok
           THEN result' = "BadOrigin" /\ UNCHANGED <<Proofs, events>>
           ELSE IF ~bounded_claim.ok
           THEN result' = "ClaimTooLong" /\ UNCHANGED <<Proofs, events>>
           ELSE IF ~proof.some
           THEN result' = "ClaimNotExist" /\ UNCHANGED <<Proofs, events>>
           ELSE IF ~(owner = sender.val)
           THEN result' = "NotClaimOwner" /\ UNCHANGED <<Proofs, events>>
           ELSE /\ Proofs' = insert(Proofs, bounded_claim.val, <<dest, block_number>>)
                /\ events' = deposit_event(ClaimTransfered(owner, sender.val, claim))
                /\ result' = "Ok"

\* Hooks: the pallet does nothing at a block boundary; only the block number
\* of frame_system advances.
next_block ==
    /\ block_number < MaxBlock
    /\ block_number' = block_number + 1
    /\ call' = [op |-> "next_block", origin |-> RawNone, claim |-> <<>>, dest |-> 0]
    /\ result' = "none"
    /\ UNCHANGED <<Proofs, events>>

Next ==
    \/ \E origin \in Origin, claim \in Claims : create_claim(origin, claim)
    \/ \E origin \in Origin, claim \in Claims : revoke_claim(origin, claim)
    \/ \E origin \in Origin, claim \in Claims, dest \in AccountId :
           transfer_claim(origin, claim, dest)
    \/ next_block

Spec == Init /\ [][Next]_vars

TypeOK ==
    /\ result \in Error \cup {"Ok", "BadOrigin", "none"}
    /\ block_number \in 0..MaxBlock
    /\ Len(events) <= MaxEvents
(***************************************************************************)
(* Properties                                                              *)
(***************************************************************************)
Dispatchables == {"create_claim", "revoke_claim", "transfer_claim"}

\* The registry as the properties read it: the entry stored for a claim.
Live(map, f) == Blake2_128Concat(f) \in DOMAIN map
Record(map, f) == map[Blake2_128Concat(f)]
OwnerOf(map, f) == map[Blake2_128Concat(f)][1]
TimeOf(map, f) == map[Blake2_128Concat(f)][2]

\* The step is a call of a dispatchable by an authenticated account.
SignedCall(ops) == call'.op \in ops /\ call'.origin.kind = "Signed"

\* The event log says that f was created and not revoked since.
CreatedNotRevoked(f) ==
    \E i \in 1..Len(events) :
        /\ events[i].event[1] = "ClaimCreated"
        /\ events[i].event[3] = f
        /\ \A j \in (i + 1)..Len(events) :
               ~(events[j].event[1] = "ClaimRevoked" /\ events[j].event[3] = f)

\* C1 (no-op on failure): a call of create_claim, revoke_claim or
\* transfer_claim that returns one of the four errors leaves the whole registry
\* as it was, every entry included, and deposits no event.
C1_NoOpOnFailure ==
    [][(call'.op \in Dispatchables /\ result' \in Error)
        => (Proofs' = Proofs /\ events' = events)]_vars

\* A call by a non-owner has failed while the registry holds two entries.
C1_Witness ==
    /\ result = "NotClaimOwner"
    /\ Cardinality(DOMAIN Proofs) >= 2
    /\ events # <<>>

\* C2 (uniqueness): while the log shows a created and not yet revoked claim f,
\* every create_claim for f by any account fails with ProofAlreadyExist, also
\* after transfers of f; and f never has more than one entry in the registry.
C2_Uniqueness ==
    /\ [](\A f \in Claims :
            Cardinality({k \in DOMAIN Proofs : Tail(k) = f}) <= 1)
    /\ [][(SignedCall({"create_claim"}) /\ CreatedNotRevoked(call'.claim))
            => (result' = "ProofAlreadyExist" /\ Live(Proofs', call'.claim))]_vars

\* The current owner, who received the claim by a transfer, tried to create it.
C2_Witness ==
    /\ call.op = "create_claim"
    /\ result = "ProofAlreadyExist"
    /\ Live(Proofs, call.claim)
    /\ OwnerOf(Proofs, call.claim) = call.origin.who
    /\ \E i \in 1..Len(events) :
           events[i].event[1] = "ClaimTransfered" /\ events[i].event[4] = call.claim

\* C3 (ownership gating): revoke_claim and transfer_claim on a live claim by an
\* account other than its owner fail with NotClaimOwner, whatever the
\* destination, and leave the claim's owner and timestamp unchanged.
C3_OwnershipGating ==
    [][(/\ SignedCall({"revoke_claim", "transfer_claim"})
        /\ Live(Proofs, call'.claim)
        /\ OwnerOf(Proofs, call'.claim) # call'.origin.who)
        => (/\ result' = "NotClaimOwner"
            /\ Live(Proofs', call'.claim)
            /\ Record(Proofs', call'.claim) = Record(Proofs, call'.claim))]_vars

\* A non-owner tried to transfer the claim to itself.
C3_Witness ==
    /\ call.op = "transfer_claim"
    /\ call.dest = call.origin.who
    /\ result = "NotClaimOwner"
    /\ Live(Proofs, call.claim)
    /\ OwnerOf(Proofs, call.claim) # call.origin.who

\* C4 (length boundary): with a claim of exactly MaxClaimLength bytes,
\* create_claim on an absent claim and revoke_claim and transfer_claim by the
\* owner succeed; with a longer claim all three fail with ClaimTooLong.
C4_LengthBoundary ==
    [][SignedCall(Dispatchables) =>
        /\ (/\ Len(call'.claim) = MaxClaimLength
            /\ call'.op = "create_claim"
            /\ ~Live(Proofs, call'.claim)) => result' = "Ok"
        /\ (/\ Len(call'.claim) = MaxClaimLength
            /\ call'.op \in {"revoke_claim", "transfer_claim"}
            /\ Live(Proofs, call'.claim)
            /\ OwnerOf(Proofs, call'.claim) = call'.origin.who) => result' = "Ok"
        /\ Len(call'.claim) > MaxClaimLength => result' = "ClaimTooLong"]_vars

\* A claim of MaxClaimLength bytes was created and revoked, and a claim one
\* byte longer has been rejected.
C4_Witness ==
    /\ result = "ClaimTooLong"
    /\ Len(call.claim) = MaxClaimLength + 1
    /\ \E i, j \in 1..Len(events) :
           /\ events[i].event[1] = "ClaimCreated"
           /\ Len(events[i].event[3]) = MaxClaimLength
           /\ events[j].event[1] = "ClaimRevoked"
           /\ Len(events[j].event[3]) = MaxClaimLength

\* C5 (error precedence): an oversize claim yields ClaimTooLong whatever the
\* registry holds; revoke_claim and transfer_claim on an absent claim of valid
\* length yield ClaimNotExist for every account; NotClaimOwner is returned only
\* when a live entry exists whose owner differs from the caller.
C5_ErrorPrecedence ==
    [][SignedCall(Dispatchables) =>
        /\ Len(call'.claim) > MaxClaimLength => result' = "ClaimTooLong"
        /\ (/\ call'.op \in {"revoke_claim", "transfer_claim"}
            /\ Len(call'.claim) <= MaxClaimLength
            /\ ~Live(Proofs, call'.claim)) => result' = "ClaimNotExist"
        /\ result' = "NotClaimOwner" =>
              /\ call'.op \in {"revoke_claim", "transfer_claim"}
              /\ Live(Proofs, call'.claim)
              /\ OwnerOf(Proofs, call'.claim) # call'.origin.who]_vars

\* revoke_claim of an oversize claim was rejected as too long while the caller
\* owns a live claim that is a prefix of it.
C5_Witness ==
    /\ call.op = "revoke_claim"
    /\ result = "ClaimTooLong"
    /\ \E f \in Claims :
           /\ Live(Proofs, f)
           /\ OwnerOf(Proofs, f) = call.origin.who
           /\ Len(f) < Len(call.claim)
           /\ SubSeq(call.claim, 1, Len(f)) = f
\* The log entries about a claim f.
IsEvent(i, name, f) ==
    /\ events[i].event[1] = name
    /\ events[i].event[Len(events[i].event)] = f

\* i is the log entry of the latest creation of f.
LastCreation(i, f) ==
    /\ IsEvent(i, "ClaimCreated", f)
    /\ \A j \in (i + 1)..Len(events) : ~IsEvent(j, "ClaimCreated", f)

C7_CreateEffect ==
    [][(call'.op = "create_claim" /\ result' = "Ok") =>
        /\ call'.origin.kind = "Signed"
        /\ Len(call'.claim) <= MaxClaimLength
        /\ ~Live(Proofs, call'.claim)
        /\ Live(Proofs', call'.claim)
        /\ Record(Proofs', call'.claim) = <<call'.origin.who, block_number>>
        /\ events' = Append(events,
               [block |-> block_number,
                event |-> <<"ClaimCreated", call'.origin.who, call'.claim>>])]_vars

\* A claim was created after the first block, beside another live claim.
C7_Witness ==
    /\ call.op = "create_claim"
    /\ result = "Ok"
    /\ block_number > 0
    /\ Record(Proofs, call.claim) = <<call.origin.who, block_number>>
    /\ Cardinality(DOMAIN Proofs) >= 2
    /\ events[Len(events)].event = <<"ClaimCreated", call.origin.who, call.claim>>

\* C8 (revoke effect): revoke_claim succeeds only on a live claim owned by the
\* caller; afterwards the claim has no entry and exactly one event
\* ClaimRevoked(caller, claim) has been deposited; a revoke_claim or
\* transfer_claim on the same claim that follows immediately fails with
\* ClaimNotExist for every account.
C8_RevokeEffect ==
    [][/\ (call'.op = "revoke_claim" /\ result' = "Ok") =>
            /\ call'.origin.kind = "Signed"
            /\ Live(Proofs, call'.claim)
            /\ OwnerOf(Proofs, call'.claim) = call'.origin.who
            /\ {k \in DOMAIN Proofs' : Tail(k) = call'.claim} = {}
            /\ events' = Append(events,
                   [block |-> block_number,
                    event |-> <<"ClaimRevoked", call'.origin.who, call'.claim>>])
       /\ (/\ call.op = "revoke_claim"
           /\ result = "Ok"
           /\ SignedCall({"revoke_claim", "transfer_claim"})
           /\ call'.claim = call.claim) => result' = "ClaimNotExist"]_vars

\* The claim revoked last was then transferred by its former owner, in vain.
C8_Witness ==
    /\ call.op = "transfer_claim"
    /\ result = "ClaimNotExist"
    /\ events # <<>>
    /\ events[Len(events)].event = <<"ClaimRevoked", call.origin.who, call.claim>>
    /\ ~Live(Proofs, call.claim)

\* C9 (revoke then recreate): a revoke_claim by the creator right after its
\* create_claim succeeds, and a create_claim of the same claim by any account
\* right after a successful revoke_claim succeeds and leaves one entry with
\* owner = the new caller and timestamp = the block of the second creation.
C9_RevokeThenRecreate ==
    [][/\ (/\ call.op = "create_claim"
           /\ result = "Ok"
           /\ SignedCall({"revoke_claim"})
           /\ call'.claim = call.claim
           /\ call'.origin = call.origin) => result' = "Ok"
       /\ (/\ call.op = "revoke_claim"
           /\ result = "Ok"
           /\ SignedCall({"create_claim"})
           /\ call'.claim = call.claim) =>
              /\ result' = "Ok"
              /\ Record(Proofs', call'.claim) = <<call'.origin.who, block_number>>
              /\ Cardinality({k \in DOMAIN Proofs' : Tail(k) = call'.claim}) = 1]_vars

\* A claim was created by one account, revoked in a later block and created
\* again by another account.
C9_Witness ==
    /\ call.op = "create_claim"
    /\ result = "Ok"
    /\ Len(events) >= 3
    /\ LET n == Len(events)
       IN  /\ events[n - 2].event[1] = "ClaimCreated"
           /\ events[n - 2].event[3] = call.claim
           /\ events[n - 2].event[2] # call.origin.who
           /\ events[n - 2].block < events[n].block
           /\ events[n - 1].event = <<"ClaimRevoked", events[n - 2].event[2], call.claim>>
           /\ events[n].event = <<"ClaimCreated", call.origin.who, call.claim>>
    /\ Record(Proofs, call.claim) = <<call.origin.who, block_number>>

C11_TransferEvent ==
    [][(call'.op = "transfer_claim" /\ result' = "Ok") =>
        /\ OwnerOf(Proofs, call'.claim) = call'.origin.who
        /\ events' = Append(events,
               [block |-> block_number,
                event |-> <<"ClaimTransfered", call'.origin.who, call'.origin.who,
                            call'.claim>>])
        /\ LET e == events'[Len(events')].event
           IN  /\ Len(e) = 4
               /\ e[2] = e[3]
               /\ call'.dest # call'.origin.who =>
                      (e[2] # call'.dest /\ e[3] # call'.dest)]_vars

\* A transfer to another account has deposited its event.
C11_Witness ==
    /\ call.op = "transfer_claim"
    /\ result = "Ok"
    /\ call.dest # call.origin.who
    /\ OwnerOf(Proofs, call.claim) = call.dest
    /\ events[Len(events)].event =
           <<"ClaimTransfered", call.origin.who, call.origin.who, call.claim>>

\* The storage keys of the claims other than f.
OtherKeys(map, f) == {k \in DOMAIN map : Tail(k) # f}

\* C12 (frame and persistence): a step changes at most the entry of the claim
\* it is called with; the entries of all other claims, prefixes and extensions
\* of it included, stay as they are. A live entry keeps its owner and timestamp
\* in every step, a block advance included, that is not a successful
\* revoke_claim or transfer_claim of that claim by its owner.
C12_FramePersistence ==
    [][/\ OtherKeys(Proofs', call'.claim) = OtherKeys(Proofs, call'.claim)
       /\ \A k \in OtherKeys(Proofs, call'.claim) : Proofs'[k] = Proofs[k]
       /\ \A k \in DOMAIN Proofs :
              (k \in DOMAIN Proofs' /\ Proofs'[k] = Proofs[k])
              \/ (/\ call'.op \in {"revoke_claim", "transfer_claim"}
                  /\ result' = "Ok"
                  /\ Tail(k) = call'.claim
                  /\ call'.origin = [kind |-> "Signed", who |-> Proofs[k][1]])]_vars

\* The empty claim has been revoked in a later block than the one in which its
\* one-byte extension was created, and the extension still has its entry.
C12_Witness ==
    /\ call.op = "revoke_claim"
    /\ result = "Ok"
    /\ call.claim = <<>>
    /\ block_number > 0
    /\ \E f \in Claims :
           /\ Len(f) > 0
           /\ Live(Proofs, f)
           /\ TimeOf(Proofs, f) < block_number
\* The outcome of a call by an authenticated account, as a function of the
\* registry, the caller and the claim alone.
ExpectedResult(op, map, who, claim) ==
    IF Len(claim) > MaxClaimLength THEN "ClaimTooLong"
    ELSE IF op = "create_claim"
         THEN (IF Live(map, claim) THEN "ProofAlreadyExist" ELSE "Ok")
         ELSE (IF ~Live(map, claim) THEN "ClaimNotExist"
               ELSE IF OwnerOf(map, claim) # who THEN "NotClaimOwner"
               ELSE "Ok")

\* C13 (exact outcome): a call by an authenticated account returns Ok or one
\* of the four errors, determined by the registry, the caller and the claim
\* alone: create_claim succeeds iff the claim fits and is absent, revoke_claim
\* and transfer_claim succeed iff the claim fits, is live and is owned by the
\* caller; create_claim never returns ClaimNotExist or NotClaimOwner, and
\* revoke_claim and transfer_claim never return ProofAlreadyExist.
C13_ExactOutcome ==
    [][SignedCall(Dispatchables) =>
        /\ result' \in Error \cup {"Ok"}
        /\ result' = ExpectedResult(call'.op, Proofs, call'.origin.who, call'.claim)
        /\ call'.op = "create_claim" =>
              result' \notin {"ClaimNotExist", "NotClaimOwner"}
        /\ call'.op \in {"revoke_claim", "transfer_claim"} =>
              result' # "ProofAlreadyExist"]_vars

\* The owner of one of two live claims has transferred it after the first
\* block, as the third successful call.
C13_Witness ==
    /\ call.op = "transfer_claim"
    /\ result = "Ok"
    /\ block_number > 0
    /\ Len(events) = MaxEvents
    /\ Cardinality(DOMAIN Proofs) >= 2
    /\ events[Len(events)].event[2] = call.origin.who

C15_AuthenticationFirst ==
    [][(call'.op \in Dispatchables /\ call'.origin.kind # "Signed") =>
        /\ result' = "BadOrigin"
        /\ Proofs' = Proofs
        /\ events' = events]_vars

\* An unsigned transfer_claim of an oversize claim was refused as a bad origin
\* while the registry holds an entry.
C15_Witness ==
    /\ call.op = "transfer_claim"
    /\ call.origin.kind # "Signed"
    /\ Len(call.claim) > MaxClaimLength
    /\ result = "BadOrigin"
    /\ DOMAIN Proofs # {}
\* i is the log entry of the latest creation or transfer of f.
LastWrite(i, f) ==
    /\ IsEvent(i, "ClaimCreated", f) \/ IsEvent(i, "ClaimTransfered", f)
    /\ \A j \in (i + 1)..Len(events) :
           ~(IsEvent(j, "ClaimCreated", f) \/ IsEvent(j, "ClaimTransfered", f))

\* C16 (timestamp invariant): the timestamp of every live claim is the block
\* of the latest successful create_claim or transfer_claim of that claim, which
\* no failed call and no call on another claim refreshes, and it is at most the
\* current block number.
C16_TimestampInvariant ==
    \A f \in Claims :
        Live(Proofs, f) =>
            /\ \E i \in 1..Len(events) :
                   LastWrite(i, f) /\ TimeOf(Proofs, f) = events[i].block
            /\ TimeOf(Proofs, f) <= block_number

\* A transfer by a non-owner has failed in a later block than the one the
\* claim was last written in, and the timestamp is still the earlier block.
C16_Witness ==
    /\ call.op = "transfer_claim"
    /\ result = "NotClaimOwner"
    /\ Live(Proofs, call.claim)
    /\ TimeOf(Proofs, call.claim) < block_number
    /\ \E i \in 1..Len(events) :
           LastWrite(i, call.claim) /\ IsEvent(i, "ClaimTransfered", call.claim)

\* The number of log entries of one kind about f.
CountEvents(name, f) == Cardinality({i \in 1..Len(events) : IsEvent(i, name, f)})

\* C17 (event log matches the registry): for every claim f the number of
\* ClaimCreated events minus the number of ClaimRevoked events is 0 or 1, and
\* 1 exactly when f is live; every ClaimTransfered event of f comes after a
\* ClaimCreated of f with no ClaimRevoked of f in between; and the log grows by
\* one entry in every successful call and in no other step.
C17_EventLogMatchesRegistry ==
    /\ [](\A f \in Claims :
            /\ CountEvents("ClaimCreated", f) - CountEvents("ClaimRevoked", f)
                   = (IF Live(Proofs, f) THEN 1 ELSE 0)
            /\ \A i \in 1..Len(events) :
                   IsEvent(i, "ClaimTransfered", f) =>
                       \E c \in 1..(i - 1) :
                           /\ IsEvent(c, "ClaimCreated", f)
                           /\ \A r \in (c + 1)..(i - 1) :
                                  ~IsEvent(r, "ClaimRevoked", f))
    /\ [][Len(events') =
              Len(events) + (IF call'.op \in Dispatchables /\ result' = "Ok"
                             THEN 1 ELSE 0)]_vars

\* A claim has been created, transferred and revoked, and is absent.
C17_Witness ==
    \E f \in Claims :
        /\ CountEvents("ClaimCreated", f) = 1
        /\ CountEvents("ClaimTransfered", f) = 1
        /\ CountEvents("ClaimRevoked", f) = 1
        /\ ~Live(Proofs, f)
        /\ result = "Ok"

\* C18 (bounded keys): every claim that has an entry in the registry has at
\* most MaxClaimLength bytes, whatever the lengths of the claims the
\* dispatchables were called with.
C18_BoundedKeys ==
    \A k \in DOMAIN Proofs : Len(Tail(k)) <= MaxClaimLength

\* create_claim of an oversize claim has been refused while every claim that
\* fits is live.
C18_Witness ==
    /\ call.op = "create_claim"
    /\ call.origin.kind = "Signed"
    /\ Len(call.claim) > MaxClaimLength
    /\ result = "ClaimTooLong"
    /\ \A f \in Claims : Len(f) <= MaxClaimLength => Live(Proofs, f)
====
